---- MODULE Spec2Model ----
(***************************************************************************)
(* A model of openscad_bindings: the CodeWriter text emitter, the          *)
(* parameter formatting rule and the Model tree with its constructors and  *)
(* its serialization (src/openscad_bindings/__init__.py).                  *)
(*                                                                         *)
(* Text is a sequence of one-character strings, so that slicing (v[1:],    *)
(* source[1:]) and concatenation are computed as Python computes them.     *)
(* A Python object is a tagged record [t, v].  An exception is the name of *)
(* its class in the field exc ("None" when nothing was raised); once a     *)
(* writer carries an exception every later statement of the call is        *)
(* skipped, which is how the exception propagates to the caller.           *)
(***************************************************************************)
EXTENDS Integers, Sequences, FiniteSets, TLC

(* nodes:    the Model objects constructed so far, in order of construction; *)
(*           a node is known by its index.                                   *)
(* lists:    the Python list objects that nodes keep as their operands       *)
(*           (Model.__init__ stores the list it is given, not a copy).       *)
(* rendered: per node, the outcome of the latest str(node): the exception,   *)
(*           the text, and the CodeWriter as the call left it.               *)
(* ret:      the result of the latest direct call of format_parameter or of  *)
(*           CodeWriter.interleave.                                          *)
VARIABLES nodes, lists, rendered, ret

vars == <<nodes, lists, rendered, ret>>

----------------------------------------------------------------------------
(* Bounds of the model *)

MaxNodes == 3
MaxLeaves == 1
MaxOperands == 2
MaxSeqLen == 3
RecursionLimit == 6
MaxAppends == 1

----------------------------------------------------------------------------
(* Python values *)

PyNone == [t |-> "none", v |-> <<>>]
PyBool(b) == [t |-> "bool", v |-> b]
PyInt(n) == [t |-> "int", v |-> n]
PyStr(s) == [t |-> "str", v |-> s]
PyList(xs) == [t |-> "list", v |-> xs]
PyModels(ms) == [t |-> "models", v |-> ms]

NoException == "None"

RECURSIVE Flatten(_)
Flatten(ss) == IF ss = <<>> THEN <<>> ELSE Head(ss) \o Flatten(Tail(ss))

Slice1(s) == IF s = <<>> THEN <<>> ELSE Tail(s)

DigitChar(d) == <<"0", "1", "2", "3", "4", "5", "6", "7", "8", "9">>[d + 1]

RECURSIVE NatText(_)
NatText(n) == IF n < 10 THEN <<DigitChar(n)>> ELSE NatText(n \div 10) \o <<DigitChar(n % 10)>>

IntText(n) == IF n < 0 THEN <<"-">> \o NatText(0 - n) ELSE NatText(n)

RECURSIVE PyRepr(_)
RECURSIVE ReprJoin(_)
ReprJoin(xs) ==
    IF xs = <<>> THEN <<>>
    ELSE IF Len(xs) = 1 THEN PyRepr(xs[1])
    ELSE PyRepr(xs[1]) \o <<",", " ">> \o ReprJoin(Tail(xs))

PyRepr(x) ==
    CASE x.t = "none" -> <<"N", "o", "n", "e">>
      [] x.t = "bool" -> IF x.v THEN <<"T", "r", "u", "e">> ELSE <<"F", "a", "l", "s", "e">>
      [] x.t = "int" -> IntText(x.v)
      [] x.t = "str" -> <<"'">> \o x.v \o <<"'">>
      [] x.t = "list" -> <<"[">> \o ReprJoin(x.v) \o <<"]">>
      [] OTHER -> <<"<", ">">>

PyStrOf(x) == IF x.t = "str" THEN x.v ELSE PyRepr(x)

----------------------------------------------------------------------------
(* CodeWriter *)

IndentUnit == <<" ", " ", " ", " ">>

RECURSIVE Repeat(_, _)
Repeat(s, n) == IF n <= 0 THEN <<>> ELSE s \o Repeat(s, n - 1)

(* Mutant of CodeWriterInit: the fragment list is not reset per instance, so *)
(* a new writer starts with what an earlier serialization left behind.       *)
CodeWriter_Shared ==
    LET done == {n \in DOMAIN rendered : rendered[n].exc = NoException}
    IN  IF done = {} THEN [_source |-> <<>>, _indent |-> 0, exc |-> NoException]
        ELSE rendered[CHOOSE n \in done : TRUE].writer

CodeWriterInit == [_source |-> <<>>, _indent |-> 0, exc |-> NoException]

Raise(w, e) == IF w.exc # NoException THEN w ELSE [w EXCEPT !.exc = e]

source(w) == Flatten([i \in 1..Len(w._source) |-> PyStrOf(w._source[i])])

write(w, x) == IF w.exc # NoException THEN w ELSE [w EXCEPT !._source = Append(@, x)]

(* Mutant of fill: the indentation is left out. *)
fill_NoIndent(w, text) == write(w, PyStr(<<"\n">> \o text))

fill(w, text) == write(w, PyStr(<<"\n">> \o Repeat(IndentUnit, w._indent) \o text))

BlockEnter(w) ==
    IF w.exc # NoException THEN w
    ELSE [write(w, PyStr(<<"{">>)) EXCEPT !._indent = @ + 1]

(* Mutant of BlockExit: the closing brace is written without first going *)
(* back one indent level.                                                 *)
BlockExit_NoDedent(w) ==
    IF w.exc # NoException THEN w
    ELSE fill(w, <<"}">>)

BlockExit(w) ==
    IF w.exc # NoException THEN w
    ELSE fill([w EXCEPT !._indent = @ - 1], <<"}">>)

DelimitEnter(w, start) == write(w, PyStr(start))

DelimitExit(w, end) == write(w, PyStr(end))

----------------------------------------------------------------------------
(* format_parameter *)

Returned(x) == [exc |-> NoException, val |-> x]
Raised(e) == [exc |-> e, val |-> PyNone]

BoolToken(v) ==
    IF v.t = "bool"
    THEN (IF v.v THEN PyStr(<<"t", "r", "u", "e">>) ELSE PyStr(<<"f", "a", "l", "s", "e">>))
    ELSE v

(* Mutant of format_parameter: the `$` name is built from the rest of the *)
(* parameter name, k[1:], instead of the rest of the value.               *)
format_parameter_KeyTail(arg) ==
    LET k == arg[1]
        v == BoolToken(arg[2])
    IN  IF k.t = "none" THEN Returned(v)
        ELSE IF k.v = <<>> THEN Raised("IndexError")
        ELSE IF k.v[1] = "_"
             THEN Returned(PyStr(<<"$">> \o Slice1(k.v) \o <<"=">> \o PyStrOf(v)))
        ELSE Returned(PyStr(k.v \o <<"=">> \o PyStrOf(v)))

format_parameter(arg) ==
    LET k == arg[1]
        v == BoolToken(arg[2])
    IN  IF k.t = "none" THEN Returned(v)
        ELSE IF k.v = <<>> THEN Raised("IndexError")
        ELSE IF k.v[1] = "_"
             THEN IF v.t # "str" THEN Raised("TypeError")
                  ELSE Returned(PyStr(<<"$">> \o Slice1(v.v) \o <<"=">> \o PyStrOf(v)))
        ELSE Returned(PyStr(k.v \o <<"=">> \o PyStrOf(v)))

----------------------------------------------------------------------------
(* CodeWriter.interleave, with the two lambdas Model._write_scad_code hands *)
(* it: inter writes ', ' and f writes format_parameter(arg).  pos is the     *)
(* number of items taken from the iterator iter(seq).                        *)

(* Mutant of SeparatorLambda: the separator is written without its space. *)
SeparatorLambda_NoSpace(w) == write(w, PyStr(<<",">>))

SeparatorLambda(w) == write(w, PyStr(<<",", " ">>))

EmitLambda(w, arg) ==
    LET r == format_parameter(arg)
    IN  IF w.exc # NoException THEN w
        ELSE IF r.exc # NoException THEN Raise(w, r.exc)
        ELSE write(w, r.val)

RECURSIVE InterleaveLoop(_, _, _)

(* Mutant of InterleaveLoop: the separator is called after each item instead *)
(* of before it.                                                             *)
InterleaveLoop_SeparatorAfter(w, seq, pos) ==
    IF w.exc # NoException \/ pos >= Len(seq) THEN [w |-> w, pos |-> pos]
    ELSE InterleaveLoop(SeparatorLambda(EmitLambda(w, seq[pos + 1])), seq, pos + 1)

InterleaveLoop(w, seq, pos) ==
    IF w.exc # NoException \/ pos >= Len(seq) THEN [w |-> w, pos |-> pos]
    ELSE InterleaveLoop(EmitLambda(SeparatorLambda(w), seq[pos + 1]), seq, pos + 1)

interleave(w, seq) ==
    IF w.exc # NoException THEN [w |-> w, pos |-> 0]
    ELSE IF seq = <<>> THEN [w |-> w, pos |-> 0]
    ELSE InterleaveLoop(EmitLambda(w, seq[1]), seq, 1)

----------------------------------------------------------------------------
(* Model: the heap of nodes.  nodes[n].operands is NoOperands (None) or the *)
(* identity of a Python list object, lists[l], holding node identities.     *)

NoOperands == 0

Unrendered ==
    [exc |-> "-", text |-> <<>>, writer |-> [_source |-> <<>>, _indent |-> 0, exc |-> NoException]]

KwNames(kwargs) == {kwargs[i][1] : i \in 1..Len(kwargs)}

KwGet(kwargs, name) == kwargs[CHOOSE i \in 1..Len(kwargs) : kwargs[i][1] = name][2]

KwWithout(kwargs, name) == SelectSeq(kwargs, LAMBDA kv : kv[1] # name)

T_operands == <<"o", "p", "e", "r", "a", "n", "d", "s">>

ModelInit(command_name, args, operands, kwargs) ==
    [command_name |-> command_name,
     args |-> [i \in 1..Len(args) |-> <<PyNone, args[i]>>]
              \o [i \in 1..Len(kwargs) |-> <<PyStr(kwargs[i][1]), kwargs[i][2]>>],
     operands |-> operands]

RECURSIVE WriteScadCode(_, _, _)
RECURSIVE WriteOperands(_, _, _)
WriteOperands(ops, w, depth) ==
    IF ops = <<>> \/ w.exc # NoException THEN w
    ELSE WriteOperands(Tail(ops), WriteScadCode(Head(ops), w, depth + 1), depth)

WriteScadCode(n, w, depth) ==
    IF w.exc # NoException THEN w
    ELSE IF depth > RecursionLimit THEN Raise(w, "RecursionError")
    ELSE LET node == nodes[n]
             w1 == fill(w, node.command_name)
             w2 == DelimitEnter(w1, <<"(">>)
             w3 == interleave(w2, node.args).w
             w4 == DelimitExit(w3, <<")">>)
         IN  IF node.operands = NoOperands THEN write(w4, PyStr(<<";">>))
             ELSE BlockExit(WriteOperands(lists[node.operands], BlockEnter(w4), depth))

StrOutcome(n) ==
    LET w == WriteScadCode(n, CodeWriterInit, 1)
    IN  [exc |-> w.exc,
         text |-> IF w.exc = NoException THEN Slice1(source(w)) ELSE <<>>,
         writer |-> w]

----------------------------------------------------------------------------
(* Names and inputs *)

T_cube == <<"c", "u", "b", "e">>
T_sphere == <<"s", "p", "h", "e", "r", "e">>
T_circle == <<"c", "i", "r", "c", "l", "e">>
T_square == <<"s", "q", "u", "a", "r", "e">>
T_polyhedron == <<"p", "o", "l", "y", "h", "e", "d", "r", "o", "n">>
T_cylinder == <<"c", "y", "l", "i", "n", "d", "e", "r">>
T_polygon == <<"p", "o", "l", "y", "g", "o", "n">>
T_union == <<"u", "n", "i", "o", "n">>
T_intersection == <<"i", "n", "t", "e", "r", "s", "e", "c", "t", "i", "o", "n">>
T_difference == <<"d", "i", "f", "f", "e", "r", "e", "n", "c", "e">>
T_minkowski == <<"m", "i", "n", "k", "o", "w", "s", "k", "i">>
T_center == <<"c", "e", "n", "t", "e", "r">>
T_fn == <<"_", "f", "n">>
T_r == <<"r">>

PrimitiveNames == {T_cube, T_sphere, T_circle, T_square, T_polyhedron, T_cylinder, T_polygon}

CombinatorNames == {T_union, T_intersection, T_difference, T_minkowski}

NodeIds == 1..Len(nodes)

RECURSIVE SeqsUpTo(_, _)
SeqsUpTo(S, n) ==
    IF n = 0 THEN {<<>>}
    ELSE LET shorter == SeqsUpTo(S, n - 1)
         IN  shorter \cup {Append(s, x) : s \in shorter, x \in S}

PosArgs ==
    {<<>>, <<PyInt(10)>>, <<PyInt(1)>>, <<PyBool(FALSE), PyStr(<<"a", "b">>)>>,
     <<PyList(<<PyInt(1), PyList(<<PyInt(2), PyInt(3)>>)>>), PyInt(0), PyStr(<<>>)>>}

KwArgs ==
    {<<>>, <<<<T_center, PyBool(TRUE)>>>>, <<<<T_r, PyInt(2)>>, <<T_center, PyBool(FALSE)>>>>,
     <<<<T_fn, PyStr(<<"x", "f", "n">>)>>>>, <<<<T_fn, PyInt(10)>>>>,
     <<<<T_operands, PyModels(<<>>)>>>>}

OperandLists ==
    {s \in SeqsUpTo(NodeIds, MaxOperands) : \A i, j \in 1..Len(s) : i < j => s[i] < s[j]}

TreeCombinatorNames == {T_union, T_difference}

ParamNames ==
    {PyNone, PyStr(<<>>), PyStr(T_r), PyStr(T_center), PyStr(T_fn), PyStr(<<"_">>), PyStr(<<"h">>)}

ParamValues ==
    {PyBool(TRUE), PyBool(FALSE), PyNone,
     PyInt(0), PyInt(1), PyInt(2), PyInt(10), PyInt(25),
     PyStr(<<>>), PyStr(<<"x">>), PyStr(<<"a", "b">>), PyStr(<<"x", "f", "n">>),
     PyStr(<<"$", "f", "n">>), PyStr(<<",", " ">>),
     PyList(<<>>), PyList(<<PyInt(1), PyInt(2)>>),
     PyList(<<PyList(<<PyInt(1)>>), PyList(<<PyInt(2), PyInt(3)>>)>>)}

InterleaveItems ==
    {<<PyNone, PyInt(1)>>, <<PyNone, PyStr(<<"a">>)>>, <<PyStr(T_r), PyBool(TRUE)>>,
     <<PyStr(T_fn), PyStr(<<"a", "b">>)>>, <<PyStr(T_fn), PyInt(10)>>}

TreeLeafCalls ==
    {[cmd |-> T_cube, args |-> <<PyInt(1)>>, kwargs |-> <<>>],
     [cmd |-> T_sphere, args |-> <<PyInt(2)>>, kwargs |-> <<>>],
     [cmd |-> T_cylinder, args |-> <<>>, kwargs |-> <<<<T_fn, PyInt(10)>>>>]}

----------------------------------------------------------------------------
(* Operations *)

Primitive(cmd, args, kwargs) ==
    /\ Len(nodes) < MaxNodes
    /\ LET given == T_operands \in KwNames(kwargs)
           passed == IF given THEN KwGet(kwargs, T_operands) ELSE PyNone
           fresh == passed.t = "models"
           operands == IF fresh THEN Len(lists) + 1 ELSE NoOperands
       IN  /\ nodes' = Append(nodes, ModelInit(cmd, args, operands, KwWithout(kwargs, T_operands)))
           /\ lists' = IF fresh THEN Append(lists, passed.v) ELSE lists
    /\ rendered' = Append(rendered, Unrendered)
    /\ UNCHANGED ret

Combinator(cmd, models, args, kwargs) ==
    /\ Len(nodes) < MaxNodes
    /\ T_operands \notin KwNames(kwargs)
    /\ lists' = Append(lists, models)
    /\ nodes' = Append(nodes, ModelInit(cmd, args, Len(lists) + 1, kwargs))
    /\ rendered' = Append(rendered, Unrendered)
    /\ UNCHANGED ret

Str(n) ==
    /\ rendered' = [rendered EXCEPT ![n] = StrOutcome(n)]
    /\ UNCHANGED <<nodes, lists, ret>>

CallerAppend(l, n) ==
    /\ Len(lists[l]) < MaxAppends
    /\ lists' = [lists EXCEPT ![l] = Append(@, n)]
    /\ UNCHANGED <<nodes, rendered, ret>>

FormatParameterCall(arg) ==
    /\ ret' = [op |-> "format_parameter", arg |-> arg, out |-> format_parameter(arg)]
    /\ UNCHANGED <<nodes, lists, rendered>>

InterleaveCall(seq) ==
    /\ ret' = [op |-> "interleave", seq |-> seq, out |-> interleave(CodeWriterInit, seq)]
    /\ UNCHANGED <<nodes, lists, rendered>>

Init ==
    /\ nodes = <<>>
    /\ lists = <<>>
    /\ rendered = <<>>
    /\ ret = [op |-> "none"]

Next ==
    \/ \E call \in TreeLeafCalls : Primitive(call.cmd, call.args, call.kwargs)
    \/ \E cmd \in TreeCombinatorNames, models \in OperandLists :
           Combinator(cmd, models, <<>>, <<>>)
    \/ \E n \in NodeIds : Str(n)

Spec == Init /\ [][Next]_vars

NextLeaf ==
    \/ \E cmd \in PrimitiveNames, args \in PosArgs, kwargs \in KwArgs :
           Len(nodes) < MaxLeaves /\ Primitive(cmd, args, kwargs)
    \/ \E n \in NodeIds : Str(n)

SpecLeaf == Init /\ [][NextLeaf]_vars

AllLeaves == \A n \in NodeIds : nodes[n].operands = NoOperands

NextFlat ==
    \/ \E call \in TreeLeafCalls :
           AllLeaves /\ Primitive(call.cmd, call.args, call.kwargs)
    \/ \E cmd \in CombinatorNames, models \in OperandLists :
           AllLeaves /\ Combinator(cmd, models, <<>>, <<>>)
    \/ \E n \in NodeIds : Str(n)

SpecFlat == Init /\ [][NextFlat]_vars

NextAlias ==
    \/ Primitive(T_cube, <<PyInt(1)>>, <<>>)
    \/ Combinator(T_union, <<>>, <<>>, <<>>)
    \/ \E l \in 1..Len(lists), n \in NodeIds : CallerAppend(l, n)
    \/ \E n \in NodeIds : Str(n)

SpecAlias == Init /\ [][NextAlias]_vars

NextFormat == \E k \in ParamNames, v \in ParamValues : FormatParameterCall(<<k, v>>)

SpecFormat == Init /\ [][NextFormat]_vars

NextInterleave == \E seq \in SeqsUpTo(InterleaveItems, MaxSeqLen) : InterleaveCall(seq)

SpecInterleave == Init /\ [][NextInterleave]_vars

----------------------------------------------------------------------------
(* Vocabulary of the properties *)

Rendered(n) == rendered[n] # Unrendered

Ok(n) == rendered[n].exc = NoException

IsLeaf(n) == nodes[n].operands = NoOperands

OperandsOf(n) == lists[nodes[n].operands]

RECURSIVE JoinComma(_)
JoinComma(ts) ==
    IF ts = <<>> THEN <<>>
    ELSE IF Len(ts) = 1 THEN ts[1]
    ELSE ts[1] \o <<",", " ">> \o JoinComma(Tail(ts))

Formats(n) == [i \in 1..Len(nodes[n].args) |-> format_parameter(nodes[n].args[i])]

FormatsOk(n) == \A i \in 1..Len(nodes[n].args) : Formats(n)[i].exc = NoException

ParamTexts(n) == [i \in 1..Len(nodes[n].args) |-> PyStrOf(Formats(n)[i].val)]

Statement(n) == nodes[n].command_name \o <<"(">> \o JoinComma(ParamTexts(n)) \o <<")">>

RECURSIVE Shift(_)
Shift(t) ==
    IF t = <<>> THEN <<>>
    ELSE IF Head(t) = "\n" THEN <<"\n">> \o IndentUnit \o Shift(Tail(t))
    ELSE <<Head(t)>> \o Shift(Tail(t))

RECURSIVE OperandLines(_)
OperandLines(ops) ==
    IF ops = <<>> THEN <<>>
    ELSE <<"\n">> \o IndentUnit \o Shift(StrOutcome(Head(ops)).text) \o OperandLines(Tail(ops))

Count(t, c) == Cardinality({i \in 1..Len(t) : t[i] = c})

OperandsOk(n) == \A i \in 1..Len(OperandsOf(n)) : StrOutcome(OperandsOf(n)[i]).exc = NoException

PlainCombinator(n) ==
    /\ nodes[n].command_name \in CombinatorNames
    /\ nodes[n].args = <<>>
    /\ ~IsLeaf(n)
    /\ \A i \in 1..Len(OperandsOf(n)) : IsLeaf(OperandsOf(n)[i])

(* union() {\n    cube(1);\n    sphere(2);\n} *)
UnionCubeSphereSpaced ==
    <<"u", "n", "i", "o", "n", "(", ")", " ", "{", "\n", " ", " ", " ", " ",
      "c", "u", "b", "e", "(", "1", ")", ";", "\n", " ", " ", " ", " ", "s",
      "p", "h", "e", "r", "e", "(", "2", ")", ";", "\n", "}">>

(* union() {\n} *)
UnionEmptySpaced ==
    <<"u", "n", "i", "o", "n", "(", ")", " ", "{", "\n", "}">>

(* union(){\n    cube(1);\n    sphere(2);\n} *)
UnionCubeSphereText ==
    <<"u", "n", "i", "o", "n", "(", ")", "{", "\n", " ", " ", " ", " ", "c",
      "u", "b", "e", "(", "1", ")", ";", "\n", " ", " ", " ", " ", "s", "p",
      "h", "e", "r", "e", "(", "2", ")", ";", "\n", "}">>

(* union(){\n} *)
UnionEmptyText ==
    <<"u", "n", "i", "o", "n", "(", ")", "{", "\n", "}">>

(* cube(10, center=true); *)
CubeTenCenteredText ==
    <<"c", "u", "b", "e", "(", "1", "0", ",", " ", "c", "e", "n", "t", "e",
      "r", "=", "t", "r", "u", "e", ")", ";">>

IsLeafCall(n, cmd, arg) ==
    /\ nodes[n].command_name = cmd
    /\ nodes[n].args = <<<<PyNone, PyInt(arg)>>>>
    /\ IsLeaf(n)

UnionCubeSphere(n) ==
    /\ nodes[n].command_name = T_union
    /\ nodes[n].args = <<>>
    /\ ~IsLeaf(n)
    /\ Len(OperandsOf(n)) = 2
    /\ IsLeafCall(OperandsOf(n)[1], T_cube, 1)
    /\ IsLeafCall(OperandsOf(n)[2], T_sphere, 2)

UnionEmpty(n) ==
    /\ nodes[n].command_name = T_union
    /\ nodes[n].args = <<>>
    /\ ~IsLeaf(n)
    /\ OperandsOf(n) = <<>>

----------------------------------------------------------------------------
(* C1, as the specification states it: a combinator with no parameters over *)
(* leaf operands serializes as `<command>() {` with one space before the    *)
(* brace, then newline + 4 spaces + leaf statement per operand, then        *)
(* newline + `}`; union([cube(1), sphere(2)]) and union([]) as quoted.      *)
C1_SpaceBeforeBrace ==
    \A n \in NodeIds : (Rendered(n) /\ PlainCombinator(n) /\ OperandsOk(n)) =>
        /\ Ok(n)
        /\ rendered[n].text = nodes[n].command_name \o <<"(", ")", " ", "{">>
                                \o OperandLines(OperandsOf(n)) \o <<"\n", "}">>
        /\ UnionCubeSphere(n) => rendered[n].text = UnionCubeSphereSpaced
        /\ UnionEmpty(n) => rendered[n].text = UnionEmptySpaced

(* C1, amended: the same layout with no space between `)` and `{`:          *)
(* `<command>(){`, newline + 4 spaces + leaf statement per operand in       *)
(* order, newline + `}`; union([cube(1), sphere(2)]) gives                  *)
(* "union(){\n    cube(1);\n    sphere(2);\n}" and union([]) "union(){\n}". *)
C1_CombinatorLayout ==
    \A n \in NodeIds : (Rendered(n) /\ PlainCombinator(n) /\ OperandsOk(n)) =>
        /\ Ok(n)
        /\ rendered[n].text = nodes[n].command_name \o <<"(", ")", "{">>
                                \o OperandLines(OperandsOf(n)) \o <<"\n", "}">>
        /\ UnionCubeSphere(n) => rendered[n].text = UnionCubeSphereText
        /\ UnionEmpty(n) => rendered[n].text = UnionEmptyText

C1_Witness ==
    \E n \in NodeIds : Rendered(n) /\ Ok(n) /\ PlainCombinator(n) /\ UnionCubeSphere(n)

----------------------------------------------------------------------------
SigilCall ==
    /\ ret.op = "format_parameter"
    /\ ret.arg[1].t = "str"
    /\ ret.arg[1].v # <<>>
    /\ ret.arg[1].v[1] = "_"

TextValue(v) == v.t \in {"str", "bool"}

----------------------------------------------------------------------------
(* C3: constructing a node from values of the allowed kinds and converting *)
(* it to text never raises, also when a named value whose name starts with  *)
(* `_` is a number or an array.                                             *)
C3_StrNeverRaises ==
    \A n \in NodeIds : Rendered(n) => Ok(n)

----------------------------------------------------------------------------
CubeTenCentered(n) ==
    /\ nodes[n].command_name = T_cube
    /\ nodes[n].args = <<<<PyNone, PyInt(10)>>, <<PyStr(T_center), PyBool(TRUE)>>>>
    /\ IsLeaf(n)

(* C4: a node without operands serializes as command name, `(`, the        *)
(* formatted parameters joined by `, ` in positional-then-named order, `)`  *)
(* and `;`, with no leading newline and no brace written by the serializer; *)
(* cube(10, center=True) gives "cube(10, center=true);".  str raises        *)
(* exactly when formatting one of the parameters raises.                    *)
C4_LeafStatement ==
    \A n \in NodeIds : (Rendered(n) /\ IsLeaf(n)) =>
        IF FormatsOk(n)
        THEN /\ Ok(n)
             /\ rendered[n].text = Statement(n) \o <<";">>
             /\ Head(rendered[n].text) # "\n"
             /\ \A i \in 1..Len(rendered[n].writer._source) :
                    rendered[n].writer._source[i] \notin {PyStr(<<"{">>), PyStr(<<"\n", "}">>)}
             /\ rendered[n].writer._indent = 0
             /\ CubeTenCentered(n) => rendered[n].text = CubeTenCenteredText
        ELSE ~Ok(n)

C4_Witness ==
    \E n \in NodeIds : Rendered(n) /\ Ok(n) /\ CubeTenCentered(n)

----------------------------------------------------------------------------
(* C5: every primitive helper returns a node that carries no operands and  *)
(* serializes as a terminal statement ending in `;` with no block, for      *)
(* every combination of arguments, a named argument `operands` included.    *)
C5_PrimitivesCarryNoOperands ==
    \A n \in NodeIds : nodes[n].command_name \in PrimitiveNames =>
        /\ IsLeaf(n)
        /\ (Rendered(n) /\ Ok(n)) =>
               /\ rendered[n].text[Len(rendered[n].text)] = ";"
               /\ Count(rendered[n].text, "{") = 0

----------------------------------------------------------------------------
(* C6: in the serialization of a tree of any depth, a node with operands   *)
(* wraps them in one `{` and one matching `}`: every operand's text is      *)
(* placed on a new line one indent unit (4 spaces) deeper than its parent,  *)
(* the closing `}` is on its own line at the parent's level, and when the   *)
(* top-level serialization ends the `{` and `}` written are as many and the *)
(* writer's indent depth is 0.  A serialization fails to return only when   *)
(* format_parameter raises on a parameter of the node or of a descendant.   *)
C6_BlocksNestAndBalance ==
    \A n \in NodeIds : Rendered(n) =>
        /\ Ok(n) <=> (FormatsOk(n) /\ (IsLeaf(n) \/ OperandsOk(n)))
        /\ Ok(n) =>
               /\ rendered[n].writer._indent = 0
               /\ Count(rendered[n].text, "{") = Count(rendered[n].text, "}")
               /\ ~IsLeaf(n) =>
                      rendered[n].text = Statement(n) \o <<"{">>
                                           \o OperandLines(OperandsOf(n)) \o <<"\n", "}">>

C6_Witness ==
    \E n \in NodeIds :
        /\ Rendered(n) /\ Ok(n) /\ ~IsLeaf(n)
        /\ \E i \in 1..Len(OperandsOf(n)) :
               /\ ~IsLeaf(OperandsOf(n)[i])
               /\ OperandsOf(OperandsOf(n)[i]) # <<>>

----------------------------------------------------------------------------
FirstRaising(seq) ==
    IF \E j \in 1..Len(seq) : format_parameter(seq[j]).exc # NoException
    THEN CHOOSE j \in 1..Len(seq) :
             /\ format_parameter(seq[j]).exc # NoException
             /\ \A i \in 1..(j - 1) : format_parameter(seq[i]).exc = NoException
    ELSE 0

(* C7: for a sequence of N items, interleave calls the emit function once  *)
(* per item in sequence order and the separator function max(N-1, 0) times, *)
(* each time strictly between two consecutive emit calls, taking each item  *)
(* from the iterator once; when the emit function raises at item j the      *)
(* calls made are exactly those up to that emit call.                       *)
C7_InterleaveOrder ==
    ret.op = "interleave" =>
        LET seq == ret.seq
            w == ret.out.w
            j == FirstRaising(seq)
            calls == IF j = 0 THEN Len(seq) ELSE j - 1
            written == IF j = 0 THEN (IF Len(seq) = 0 THEN 0 ELSE 2 * Len(seq) - 1)
                       ELSE 2 * (j - 1)
        IN  /\ (w.exc = NoException) <=> (j = 0)
            /\ Len(w._source) = written
            /\ \A i \in 1..written :
                   IF i % 2 = 1 THEN w._source[i] = format_parameter(seq[(i + 1) \div 2]).val
                   ELSE w._source[i] = PyStr(<<",", " ">>)
            /\ ret.out.pos = (IF j = 0 THEN Len(seq) ELSE j)
            /\ j = 0 => Cardinality({i \in 1..written : i % 2 = 0})
                            = (IF Len(seq) = 0 THEN 0 ELSE Len(seq) - 1)

C7_Witness ==
    /\ ret.op = "interleave"
    /\ Len(ret.seq) = 3
    /\ ret.out.w.exc = NoException
    /\ Len(ret.out.w._source) = 5

----------------------------------------------------------------------------
----------------------------------------------------------------------------
(* C9: CodeWriter.block restores the indent depth to its value before the  *)
(* block whether the body completes or raises, so the writer of every       *)
(* serialization, completed or failed, ends at the depth it started at, 0.  *)
C9_BlockRestoresIndent ==
    \A n \in NodeIds : Rendered(n) => rendered[n].writer._indent = 0

----------------------------------------------------------------------------
Children(n) == IF IsLeaf(n) THEN {} ELSE {OperandsOf(n)[i] : i \in 1..Len(OperandsOf(n))}

RECURSIVE Reach(_, _)
Reach(S, k) ==
    IF k = 0 THEN S
    ELSE Reach(S \cup UNION {Children(m) : m \in S}, k - 1)

Descendants(n) == Reach(Children(n), Len(nodes))

(* C10: no node is its own descendant, and serialization terminates within *)
(* the size of the tree: str never exhausts the recursion limit.            *)
C10_AcyclicAndTerminates ==
    /\ \A n \in NodeIds : n \notin Descendants(n)
    /\ \A n \in NodeIds : Rendered(n) => rendered[n].exc # "RecursionError"

====
